---- MODULE Spec2Model ----
(***************************************************************************)
(* State-machine model of the geocoin game (cmpm-121-demo-3).              *)
(*                                                                         *)
(* Three revisions of the program are modelled side by side; the variable  *)
(* rev names the one that is running:                                      *)
(*   "main"  src/src/main.ts       deposit keeps the coin's triple,        *)
(*                                 resetGame, geolocation, movement trail  *)
(*   "p000"  src/unnamed/part_000  as main, plus localStorage persistence  *)
(*                                 and CacheCellUIHandler                  *)
(*   "p001"  src/unnamed/part_001  deposit re-stamps the coin, caches are  *)
(*                                 drawn as rectangles, no reset/trail     *)
(*                                                                         *)
(* Units.  Latitudes and longitudes are integers in units of 1e-5 degree,  *)
(* so TILE_DEGREES (1e-4 degree) is 10.  luck() values and the spawn       *)
(* probability are in thousandths.                                         *)
(*                                                                         *)
(* Objects.  JavaScript objects that the program shares by reference are   *)
(* kept in heap, indexed by an object id <<epoch, i, j>>: epoch 0 for an   *)
(* extrinsic state created while the module is evaluated, 1 for one        *)
(* created later (by a later spawnCache or by loadGameState).  A Map is a  *)
(* sequence of entries [key, obj] in insertion order.  Coins are records;  *)
(* a coin object is never reachable from two places at once except as a    *)
(* copy, so coins are kept by value.                                       *)
(***************************************************************************)
EXTENDS Integers, Sequences, FiniteSets, TLC

VARIABLES
  rev,              \* the revision that is running
  phase,            \* "boot": module evaluated, load event not yet delivered (p000); "ready"
  currentLat,       \* let currentLat
  currentLng,       \* let currentLng
  movementHistory,  \* const movementHistory: LatLng[]            (main, p000)
  playerCoins,      \* const playerCoins: Coin[]
  cellStates,       \* const cellStates: Map<string, CellExtrinsicState>
  heap,             \* the CellExtrinsicState objects, by object id
  markers,          \* per cell key, the topmost drawn marker/rectangle and its handler
  popup,            \* the open popup and the coins array its handlers closed over (main, p001)
  geoPending,       \* some getCurrentPosition request is outstanding
  mementos,         \* Caretaker.mementos
  originator,       \* Originator.state: the cellStates Map itself, or a memento's Map
  storage,          \* localStorage slot "geocoinGameState"                (p000)
  alerted,          \* the failure the last handler reported with alert(), "" if none
  captured          \* history: per memento, the coin lists at its backup(), kept while
                    \* nothing but ledger clicks has happened since; written down
                    \* only in the behaviours that start with captured.on.  And, in
                    \* the behaviours that start with captured.pairs, the cache, its
                    \* coin list and the inventory before the collect click that
                    \* has just succeeded.  And, in the behaviours that start with
                    \* captured.counting, the number of events so far

vars == <<rev, phase, currentLat, currentLng, movementHistory, playerCoins,
          cellStates, heap, markers, popup, geoPending,
          mementos, originator, storage, alerted, captured>>

----------------------------------------------------------------------------
(* Bounds of the model *)

\* longest movement trail; a move or a geolocation fix that would exceed it is not taken
MaxTrail == 2
\* the player walks at most MaxRange tiles north of OAKES, and not east, west or south of it
MaxRange == 2
\* deepest memento stack; backup() beyond it is not taken
MaxMementos == 1
\* most coins (cell lists plus inventory) the world may hold
MaxCoins == 3
\* longest movement trail in the behaviours that only move and locate the player
MaxGeoTrail == 3
\* most events in the behaviours whose events are counted
MaxEvents == 5
\* longest movement trail in the behaviours that walk to the cache of four coins
MaxWalkTrail == 3
\* most coins of the world in those behaviours
MaxWalkCoins == 6

----------------------------------------------------------------------------
(* Program constants *)

TILE_DEGREES == 10
NEIGHBORHOOD_SIZE == 8
CACHE_SPAWN_PROBABILITY == 100
OAKES == [lat |-> 3698949, lng |-> -12206277]

Revisions == {"main", "p000", "p001"}
HasTrail == rev \in {"main", "p000"}

\* Math.floor(luck(...) * 6) in main.ts and part_000, * 3 in part_001
MaxCoinsPerCache == IF rev = "p001" THEN 3 ELSE 6

----------------------------------------------------------------------------
(* Coordinate mapper *)

latToI(lat) == lat \div TILE_DEGREES
lngToJ(lng) == lng \div TILE_DEGREES

\* the template string `${i},${j}` used as Map key; injective on pairs of integers
CellKey(i, j) == <<i, j>>
CoinKey(coin) == CellKey(coin.i, coin.j)

----------------------------------------------------------------------------
(* Deterministic world generator.  luck.ts is not among the sources: it is a *)
(* seeded hash of its string argument into [0,1).  Here it is a fixed table  *)
(* on the cells around OAKES, in thousandths; role "" is the spawn draw      *)
(* luck([i,j].toString()), role "initialCoins" the coin-count draw.          *)

\* the cells whose spawn draw is not the default one
Drawn ==
  LET i0 == latToI(OAKES.lat)
      j0 == lngToJ(OAKES.lng)
  IN {<<i0 - 8, j0>>, <<i0 + 9, j0>>, <<i0 + 10, j0>>}

luck(i, j, role) ==
  LET d == <<i - latToI(OAKES.lat), j - lngToJ(OAKES.lng)>> IN
  IF role = "initialCoins"
  THEN CASE d = <<-8, 0>> -> 200
         [] d = <<9, 0>>  -> 200
         [] d = <<10, 0>> -> 700
         [] OTHER -> 900
  ELSE IF <<i, j>> \in Drawn THEN 50 ELSE 500

----------------------------------------------------------------------------
(* Cell state store *)

NoObj == <<>>

\* Map.get(key): the object id stored under key, or NoObj (undefined)
MapGet(m, key) ==
  LET at == {n \in 1..Len(m) : m[n].key = key} IN
  IF at = {} THEN NoObj ELSE m[CHOOSE n \in at : TRUE].obj

\* Map.set(key, obj): replaces in place, or appends in insertion order
MapSet(m, key, obj) ==
  IF MapGet(m, key) = NoObj
  THEN Append(m, [key |-> key, obj |-> obj])
  ELSE [n \in 1..Len(m) |-> IF m[n].key = key THEN [key |-> key, obj |-> obj] ELSE m[n]]

MapKeys(m) == {m[n].key : n \in 1..Len(m)}

\* a generator that numbers the coins of a cache from 1
InitialCoinsFromOne(i, j) ==
  LET numCoins == (luck(i, j, "initialCoins") * MaxCoinsPerCache) \div 1000 IN
  [n \in 1..numCoins |-> [i |-> i, j |-> j, serial |-> n]]

\* for (serial = 0; serial < numCoins; serial++) coins.push({ i, j, serial })
InitialCoins(i, j) ==
  LET numCoins == (luck(i, j, "initialCoins") * MaxCoinsPerCache) \div 1000 IN
  [n \in 1..numCoins |-> [i |-> i, j |-> j, serial |-> n - 1]]

\* spawnCache(i, j) on the world w = [cs, heap, markers]; epoch tags a new object.
\* cacheCell.draw puts a new marker on top, its handlers closed over the state object.
spawnCache(i, j, w, epoch) ==
  LET cellKey == CellKey(i, j)
      found == MapGet(w.cs, cellKey)
      obj == IF found = NoObj THEN <<epoch, i, j>> ELSE found
      cs2 == IF found = NoObj THEN MapSet(w.cs, cellKey, obj) ELSE w.cs
      h2 == IF found = NoObj
            THEN [o \in DOMAIN w.heap \cup {obj} |->
                    IF o = obj THEN [i |-> i, j |-> j, coins |-> InitialCoins(i, j)]
                    ELSE w.heap[o]]
            ELSE w.heap
      m2 == [k \in DOMAIN w.markers \cup {cellKey} |->
               IF k = cellKey THEN [obj |-> obj, armed |-> TRUE] ELSE w.markers[k]]
  IN [cs |-> cs2, heap |-> h2, markers |-> m2]

\* loops that stop one short: di < NEIGHBORHOOD_SIZE, dj < NEIGHBORHOOD_SIZE
InNeighborhoodOpen(c, playerI, playerJ) ==
  /\ c[1] >= playerI - NEIGHBORHOOD_SIZE
  /\ c[1] < playerI + NEIGHBORHOOD_SIZE
  /\ c[2] >= playerJ - NEIGHBORHOOD_SIZE
  /\ c[2] < playerJ + NEIGHBORHOOD_SIZE

\* for (di = -NEIGHBORHOOD_SIZE; di <= NEIGHBORHOOD_SIZE; di++), and the same for dj
InNeighborhood(c, playerI, playerJ) ==
  /\ c[1] >= playerI - NEIGHBORHOOD_SIZE
  /\ c[1] <= playerI + NEIGHBORHOOD_SIZE
  /\ c[2] >= playerJ - NEIGHBORHOOD_SIZE
  /\ c[2] <= playerJ + NEIGHBORHOOD_SIZE

\* a set of cells as the nested loops meet them: i ascending, then j ascending
RECURSIVE InLoopOrder(_)
InLoopOrder(cells) ==
  IF cells = {} THEN <<>>
  ELSE LET first == CHOOSE c \in cells :
                      \A e \in cells : c[1] < e[1] \/ (c[1] = e[1] /\ c[2] <= e[2])
       IN <<first>> \o InLoopOrder(cells \ {first})

\* the cells of the neighbourhood in the order of the two nested for loops; a cell
\* with the default draw never passes the spawn test, so only the Drawn ones are listed
Neighborhood(playerI, playerJ) ==
  InLoopOrder({c \in Drawn : InNeighborhood(c, playerI, playerJ)})

\* if (luck([i, j].toString()) < CACHE_SPAWN_PROBABILITY) spawnCache(i, j)
Spawns(c) == luck(c[1], c[2], "") < CACHE_SPAWN_PROBABILITY

RECURSIVE SpawnEach(_, _, _, _)
SpawnEach(cells, n, w, epoch) ==
  IF n > Len(cells) THEN w
  ELSE SpawnEach(cells, n + 1, spawnCache(cells[n][1], cells[n][2], w, epoch), epoch)

\* the two nested for loops over di and dj
SpawnLoop(cells, w, epoch) == SpawnEach(SelectSeq(cells, Spawns), 1, w, epoch)

\* updateVisibleCaches(): removes every Rectangle layer (the caches of part_001; the
\* markers of main.ts and part_000 are not rectangles and stay), then spawns around
\* the player
updateVisibleCaches(lat, lng, w, epoch) ==
  LET cleared == IF rev = "p001" THEN [w EXCEPT !.markers = <<>>] ELSE w
  IN SpawnLoop(Neighborhood(latToI(lat), lngToJ(lng)), cleared, epoch)

----------------------------------------------------------------------------
(* Shapes of the remaining state *)

NoPopup == [open |-> FALSE, key |-> <<>>, obj |-> NoObj, stale |-> FALSE, arr |-> <<>>]

\* bindPopup(() => { const { i, j, coins } = extrinsicState; ... }): the content
\* function runs each time the popup opens, and the click listeners close over the
\* array that extrinsicState.coins names at that moment
OpenOn(key, obj) == [open |-> TRUE, key |-> key, obj |-> obj, stale |-> FALSE, arr |-> <<>>]

\* the array the open popup's listeners hold: the live one of the state object, or,
\* once resetGame has assigned the object a new array, the old one
PopupCoins == IF popup.stale THEN popup.arr ELSE heap[popup.obj].coins

LiveOriginator == [alias |-> TRUE, map |-> <<>>]

EmptyText == [playerLocation |-> [lat |-> 0, lng |-> 0], movementHistory |-> <<>>,
              playerCoins |-> <<>>, cellStates |-> <<>>]
NoSave == [shape |-> "absent", text |-> EmptyText]

RECURSIVE SumLen(_, _, _)
SumLen(m, n, h) == IF n > Len(m) THEN 0 ELSE Len(h[m[n].obj].coins) + SumLen(m, n + 1, h)

\* all coins of the world: every coin list of cellStates plus the inventory
TotalCoins(m, h, inv) == SumLen(m, 1, h) + Len(inv)

Front(s) == SubSeq(s, 1, Len(s) - 1)
Last(s) == s[Len(s)]

World == [cs |-> cellStates, heap |-> heap, markers |-> markers]

\* the coin list of every cell of the Map m, by key
CoinLists(m, h) == [k \in MapKeys(m) |-> h[MapGet(m, k)].coins]

\* an operation other than a ledger click ends the record of every memento
NoLists == [valid |-> FALSE, lists |-> <<>>]
\* no collect click has just succeeded
NoCollect == [valid |-> FALSE, key |-> <<>>, list |-> <<>>, inv |-> <<>>]
\* the number of events after this one, where events are counted
Counted == IF captured.counting THEN captured.events + 1 ELSE 0
\* any step ends the record of the collect click before it
Unpaired == [captured EXCEPT !.last = NoCollect, !.events = Counted]
Voided == [captured EXCEPT !.snaps = [n \in 1..Len(@) |-> NoLists], !.last = NoCollect,
                           !.events = Counted]

\* objects created after the module's own spawn loop get epoch 1
Epoch == 1

\* the state objects a Map holds
Objects(m) == {m[n].obj : n \in 1..Len(m)}

\* objects that nothing refers to any more are dropped
Collected(w) ==
  LET used == Objects(w.cs) \cup {w.markers[k].obj : k \in DOMAIN w.markers}
              \cup UNION {Objects(mementos[n]) : n \in 1..Len(mementos)}
              \cup Objects(originator.map)
  IN [w EXCEPT !.heap = [o \in used \cap DOMAIN w.heap |-> w.heap[o]]]

\* updateVisibleCaches() after the module's evaluation
Redrawn(lat, lng, w) ==
  CHOOSE r \in {Collected(u) : u \in {updateVisibleCaches(lat, lng, w, Epoch)}} : TRUE

\* removing the rectangles of part_001 closes the popup bound to one of them
PopupAfterRedraw == IF rev = "p001" THEN NoPopup ELSE popup

----------------------------------------------------------------------------
(* The state after the module has been evaluated *)

BootWorld ==
  SpawnLoop(Neighborhood(latToI(OAKES.lat), lngToJ(OAKES.lng)),
            [cs |-> <<>>, heap |-> <<>>, markers |-> <<>>], 0)

BootWith(r, st, history) ==
  /\ rev = r
  /\ phase = IF r = "p000" THEN "boot" ELSE "ready"
  /\ currentLat = OAKES.lat
  /\ currentLng = OAKES.lng
  /\ movementHistory = IF r = "p001" THEN <<>> ELSE <<OAKES>>
  /\ playerCoins = <<>>
  /\ cellStates = BootWorld.cs
  /\ heap = BootWorld.heap
  /\ markers = BootWorld.markers
  /\ popup = NoPopup
  /\ geoPending = FALSE
  /\ mementos = <<>>
  /\ originator = LiveOriginator
  /\ storage = st
  /\ alerted = ""
  /\ captured = history

\* what is written down of the past: the coin lists at backup() if on, the collect
\* click before a deposit click if pairs
History(on, pairs) ==
  [on |-> on, pairs |-> pairs, counting |-> FALSE, events |-> 0,
   snaps |-> <<>>, last |-> NoCollect]

Boot(r, st, on) == BootWith(r, st, History(on, FALSE))

InitMain == Boot("main", NoSave, FALSE)
Init000 == Boot("p000", NoSave, FALSE)
Init001 == Boot("p001", NoSave, FALSE)
Init == InitMain \/ Init000 \/ Init001
\* main.ts with the history of backup() written down
InitUndo == Boot("main", NoSave, TRUE)

----------------------------------------------------------------------------
(* Coin ledger of main.ts and part_001: the click listeners of setupInteraction *)

\* the player clicks a cache marker: its popup opens (any other popup closes)
openPopup(key) ==
  /\ rev \in {"main", "p001"}
  /\ key \in DOMAIN markers
  /\ popup' = OpenOn(key, markers[key].obj)
  /\ alerted' = ""
  /\ UNCHANGED <<rev, phase, currentLat, currentLng, movementHistory, playerCoins,
                 cellStates, heap, markers, geoPending, mementos, originator, storage>>
  /\ captured' = Unpaired

\* coins.pop() on the array the listener holds
PopCoins(h) ==
  IF popup.stale THEN h ELSE [h EXCEPT ![popup.obj].coins = Front(@)]

\* coins.push(coin) on the array the listener holds
PushCoins(h, coin) ==
  IF popup.stale THEN h ELSE [h EXCEPT ![popup.obj].coins = Append(@, coin)]

\* a deposit that re-stamps the coin in every revision
\* a deposit that leaves the coin as it was collected, in every revision
DepositedAsCollected(coin) == coin

DepositedRestamped(coin) ==
  [i |-> heap[popup.obj].i, j |-> heap[popup.obj].j, serial |-> Len(PopupCoins)]

\* part_001 re-stamps the coin: coin.i = i; coin.j = j; coin.serial = coins.length
Deposited(coin) ==
  IF rev = "p001"
  THEN [i |-> heap[popup.obj].i, j |-> heap[popup.obj].j, serial |-> Len(PopupCoins)]
  ELSE coin

\* the Collect listener, taken while the world holds no more than limit coins
collectClickUpTo(limit) ==
  /\ rev \in {"main", "p001"}
  /\ popup.open
  /\ IF Len(PopupCoins) = 0
     THEN /\ alerted' = "EmptyCache"
          /\ UNCHANGED <<playerCoins, heap, popup>>
     ELSE /\ TotalCoins(cellStates, PopCoins(heap), playerCoins) + 1 <= limit
          /\ heap' = PopCoins(heap)
          /\ playerCoins' = Append(playerCoins, Last(PopupCoins))
          \* marker.closePopup(); marker.openPopup(): the content function runs again
          /\ popup' = OpenOn(popup.key, popup.obj)
          /\ alerted' = ""
  /\ UNCHANGED <<rev, phase, currentLat, currentLng, movementHistory, cellStates,
                 markers, geoPending, mementos, originator, storage>>
  /\ captured' = IF captured.pairs /\ Len(PopupCoins) > 0
                 THEN [captured EXCEPT !.events = Counted,
                                       !.last = [valid |-> TRUE, key |-> popup.key,
                                                 list |-> heap[MapGet(cellStates, popup.key)].coins,
                                                 inv |-> playerCoins]]
                 ELSE Unpaired

collectClick == collectClickUpTo(MaxCoins)

\* a deposit handler without the early return: with an empty inventory pop() yields
\* undefined, which is pushed all the same
depositClickUnguarded ==
  /\ rev \in {"main", "p001"}
  /\ popup.open
  /\ IF Len(playerCoins) = 0
     THEN /\ alerted' = "EmptyInventory"
          /\ heap' = PushCoins(heap, [i |-> 0, j |-> 0, serial |-> 0])
          /\ UNCHANGED <<playerCoins, popup>>
     ELSE /\ playerCoins' = Front(playerCoins)
          /\ heap' = PushCoins(heap, Deposited(Last(playerCoins)))
          /\ popup' = OpenOn(popup.key, popup.obj)
          /\ alerted' = ""
  /\ UNCHANGED <<rev, phase, currentLat, currentLng, movementHistory, cellStates,
                 markers, geoPending, mementos, originator, storage, captured>>

depositClick ==
  /\ rev \in {"main", "p001"}
  /\ popup.open
  /\ IF Len(playerCoins) = 0
     THEN /\ alerted' = "EmptyInventory"
          /\ UNCHANGED <<playerCoins, heap, popup>>
     ELSE /\ playerCoins' = Front(playerCoins)
          /\ heap' = PushCoins(heap, Deposited(Last(playerCoins)))
          /\ popup' = OpenOn(popup.key, popup.obj)
          /\ alerted' = ""
  /\ UNCHANGED <<rev, phase, currentLat, currentLng, movementHistory, cellStates,
                 markers, geoPending, mementos, originator, storage>>
  /\ captured' = Unpaired

----------------------------------------------------------------------------
(* Persistence codec (part_000) *)

\* an encoding that keeps the cells but not their coins
EncodeCellsWithoutCoins(m, h) ==
  [n \in 1..Len(m) |-> <<m[n].key, [h[m[n].obj] EXCEPT !.coins = <<>>]>>]

\* Array.from(cellStates.entries()).map(([key, value]) => [key, { ...value, coins: copies }])
EncodeCells(m, h) == [n \in 1..Len(m) |-> <<m[n].key, h[m[n].obj]>>]

\* the object that saveGameState hands to JSON.stringify; JSON keeps numbers, arrays
\* and field names as they are
GameState(lat, lng, trail, inv, m, h) ==
  [playerLocation |-> [lat |-> lat, lng |-> lng],
   movementHistory |-> [n \in 1..Len(trail) |-> [lat |-> trail[n].lat, lng |-> trail[n].lng]],
   playerCoins |-> inv,
   cellStates |-> EncodeCells(m, h)]

saveGameState(lat, lng, trail, inv, m, h) ==
  [shape |-> "state", text |-> GameState(lat, lng, trail, inv, m, h)]

\* cellStates.clear(); gameState.cellStates.forEach(([key, value]) => cellStates.set(key, ...)):
\* every entry becomes a new object
RECURSIVE RestoreCells(_, _, _)
RestoreCells(entries, n, w) ==
  IF n > Len(entries) THEN w
  ELSE LET key == entries[n][1]
           obj == <<1>> \o key
       IN RestoreCells(entries, n + 1,
            [w EXCEPT !.cs = MapSet(w.cs, key, obj),
                      !.heap = [o \in DOMAIN w.heap \cup {obj} |->
                                  IF o = obj THEN entries[n][2] ELSE w.heap[o]]])

\* the fields of the object that JSON.parse returned
GameStateFields == {"playerLocation", "movementHistory", "playerCoins", "cellStates"}

\* loadGameState() with a text that parses: the result [lat, lng, trail, inv, world].
\* Reading .lat or calling .forEach on a field that the object lacks throws a
\* TypeError, which ends the handler: what was assigned before stays assigned
\* (movementHistory.length = 0, playerCoins.length = 0 and cellStates.clear() come
\* before the forEach that fills them), the rest keeps its present value
Loaded(text, w) ==
  LET has1 == "playerLocation" \in DOMAIN text
      has2 == has1 /\ "movementHistory" \in DOMAIN text
      has3 == has2 /\ "playerCoins" \in DOMAIN text
      has4 == has3 /\ "cellStates" \in DOMAIN text
      lat == IF has1 THEN text.playerLocation.lat ELSE currentLat
      lng == IF has1 THEN text.playerLocation.lng ELSE currentLng
      trail == IF ~has1 THEN movementHistory
               ELSE IF ~has2 THEN <<>>
               ELSE [n \in 1..Len(text.movementHistory) |->
                       [lat |-> text.movementHistory[n].lat, lng |-> text.movementHistory[n].lng]]
      inv == IF ~has2 THEN playerCoins
             ELSE IF ~has3 THEN <<>>
             ELSE text.playerCoins
      world == IF ~has3 THEN w
               ELSE IF ~has4 THEN [w EXCEPT !.cs = <<>>]
               ELSE Redrawn(lat, lng, RestoreCells(text.cellStates, 1, [w EXCEPT !.cs = <<>>]))
  IN [lat |-> lat, lng |-> lng, trail |-> trail, inv |-> inv, world |-> world]

\* a loadGameState that, finding no save, starts from an empty cell mapping
loadGameStateFromNothing ==
  /\ rev = "p000"
  /\ phase = "boot"
  /\ phase' = "ready"
  /\ IF storage.shape = "state"
     THEN LET r == Loaded(storage.text, World) IN
          /\ currentLat' = r.lat
          /\ currentLng' = r.lng
          /\ movementHistory' = r.trail
          /\ playerCoins' = r.inv
          /\ cellStates' = r.world.cs
          /\ heap' = r.world.heap
          /\ markers' = r.world.markers
     ELSE IF storage.shape = "unparsable"
     \* JSON.parse throws a SyntaxError, which ends the handler
     THEN UNCHANGED <<currentLat, currentLng, movementHistory, playerCoins,
                      cellStates, heap, markers>>
     ELSE /\ cellStates' = <<>>
          /\ UNCHANGED <<heap, markers>>
          /\ UNCHANGED <<currentLat, currentLng, movementHistory, playerCoins>>
  /\ alerted' = ""
  /\ UNCHANGED <<rev, popup, geoPending, mementos, originator, storage>>
  /\ captured' = Unpaired

\* self.addEventListener("load", loadGameState)
loadGameState ==
  /\ rev = "p000"
  /\ phase = "boot"
  /\ phase' = "ready"
  /\ IF storage.shape = "state"
     THEN LET r == Loaded(storage.text, World) IN
          /\ currentLat' = r.lat
          /\ currentLng' = r.lng
          /\ movementHistory' = r.trail
          /\ playerCoins' = r.inv
          /\ cellStates' = r.world.cs
          /\ heap' = r.world.heap
          /\ markers' = r.world.markers
     ELSE IF storage.shape = "unparsable"
     \* JSON.parse throws a SyntaxError, which ends the handler
     THEN UNCHANGED <<currentLat, currentLng, movementHistory, playerCoins,
                      cellStates, heap, markers>>
     ELSE LET w == Redrawn(currentLat, currentLng, World) IN
          /\ cellStates' = w.cs
          /\ heap' = w.heap
          /\ markers' = w.markers
          /\ UNCHANGED <<currentLat, currentLng, movementHistory, playerCoins>>
  /\ alerted' = ""
  /\ UNCHANGED <<rev, popup, geoPending, mementos, originator, storage>>
  /\ captured' = Unpaired

\* a text that an earlier session has written: the player one tile north of the
\* start, holding the coin of the cache 8 rows south of it
SampleText ==
  LET i == latToI(OAKES.lat) - NEIGHBORHOOD_SIZE
      j == lngToJ(OAKES.lng)
      north == [lat |-> OAKES.lat + TILE_DEGREES, lng |-> OAKES.lng]
  IN [playerLocation |-> north,
      movementHistory |-> <<[lat |-> OAKES.lat, lng |-> OAKES.lng], north>>,
      playerCoins |-> <<[i |-> i, j |-> j, serial |-> 0]>>,
      cellStates |-> << <<CellKey(i, j), [i |-> i, j |-> j, coins |-> <<>>]>> >>]

\* slot contents that are not a saved game: a text that JSON.parse rejects, and
\* texts of objects that lack one of the fields
CorruptSaves ==
  {[shape |-> "unparsable", text |-> EmptyText]} \cup
  {[shape |-> "state", text |-> [f \in GameStateFields \ {gone} |-> SampleText[f]]] :
     gone \in GameStateFields}

\* the page is loaded again: the module is evaluated afresh, the storage slot stays
reload ==
  /\ rev = "p000"
  /\ phase = "ready"
  /\ phase' = "boot"
  /\ currentLat' = OAKES.lat
  /\ currentLng' = OAKES.lng
  /\ movementHistory' = <<OAKES>>
  /\ playerCoins' = <<>>
  /\ cellStates' = BootWorld.cs
  /\ heap' = BootWorld.heap
  /\ markers' = BootWorld.markers
  /\ popup' = NoPopup
  /\ geoPending' = FALSE
  /\ mementos' = <<>>
  /\ originator' = LiveOriginator
  /\ alerted' = ""
  /\ UNCHANGED <<rev, storage>>
  /\ captured' = [captured EXCEPT !.snaps = <<>>, !.last = NoCollect, !.events = Counted]

----------------------------------------------------------------------------
(* Coin ledger of part_000: CacheCellUIHandler *)

\* refreshPopup: setPopupContent(html string) replaces the popup's element, and with
\* it the two click listeners, by markup without listeners
Refreshed(key) == [markers EXCEPT ![key].armed = FALSE]

\* handleCoinClick(..., "collect"), taken while the world holds no more than limit coins
collectCoinUpTo(limit, key) ==
  /\ rev = "p000"
  /\ phase = "ready"
  /\ key \in DOMAIN markers
  /\ markers[key].armed
  /\ LET obj == markers[key].obj IN
     IF Len(heap[obj].coins) = 0
     THEN /\ alerted' = "EmptyCache"
          /\ UNCHANGED <<playerCoins, heap, storage>>
     ELSE LET h2 == [heap EXCEPT ![obj].coins = Front(@)]
              inv2 == Append(playerCoins, Last(heap[obj].coins))
          IN /\ TotalCoins(cellStates, h2, inv2) <= limit
             /\ heap' = h2
             /\ playerCoins' = inv2
             /\ storage' = saveGameState(currentLat, currentLng, movementHistory,
                                         inv2, cellStates, h2)
             /\ alerted' = ""
  /\ markers' = Refreshed(key)
  /\ UNCHANGED <<rev, phase, currentLat, currentLng, movementHistory, cellStates,
                 popup, geoPending, mementos, originator>>
  /\ captured' = Unpaired

collectCoin(key) == collectCoinUpTo(MaxCoins, key)

depositCoin(key) ==
  /\ rev = "p000"
  /\ phase = "ready"
  /\ key \in DOMAIN markers
  /\ markers[key].armed
  /\ LET obj == markers[key].obj IN
     IF Len(playerCoins) = 0
     THEN /\ alerted' = "EmptyInventory"
          /\ UNCHANGED <<playerCoins, heap, storage>>
     ELSE LET h2 == [heap EXCEPT ![obj].coins = Append(@, Last(playerCoins))]
              inv2 == Front(playerCoins)
          IN /\ heap' = h2
             /\ playerCoins' = inv2
             /\ storage' = saveGameState(currentLat, currentLng, movementHistory,
                                         inv2, cellStates, h2)
             /\ alerted' = ""
  /\ markers' = Refreshed(key)
  /\ UNCHANGED <<rev, phase, currentLat, currentLng, movementHistory, cellStates,
                 popup, geoPending, mementos, originator>>
  /\ captured' = Unpaired

----------------------------------------------------------------------------
(* Movement.  map.panTo only starts a pan; the map's "moveend" event, whose     *)
(* listener is updateVisibleCaches, comes later, as a step of its own.          *)

Directions == {<<TILE_DEGREES, 0>>, <<-TILE_DEGREES, 0>>, <<0, -TILE_DEGREES>>, <<0, TILE_DEGREES>>}

\* positions the model lets the player walk to: up to MaxRange tiles north of OAKES
InRange(lat, lng) ==
  /\ lng = OAKES.lng
  /\ lat >= OAKES.lat
  /\ lat <= OAKES.lat + MaxRange * TILE_DEGREES

\* positions navigator.geolocation may report
GeoFixes == {[lat |-> OAKES.lat + 7, lng |-> OAKES.lng + 4],
             [lat |-> OAKES.lat, lng |-> OAKES.lng + 8]}

TrailHasRoomUpTo(limit) == HasTrail => Len(movementHistory) < limit
TrailHasRoom == TrailHasRoomUpTo(MaxTrail)

\* updateMovementHistory(): movementHistory.push(leaflet.latLng(currentLat, currentLng))
updateMovementHistory(trail, lat, lng) ==
  IF HasTrail THEN Append(trail, [lat |-> lat, lng |-> lng]) ELSE trail

\* movePlayer, taken while the trail is shorter than limit
movePlayerUpTo(limit, latChange, lngChange) ==
  /\ phase = "ready"
  /\ InRange(currentLat + latChange, currentLng + lngChange)
  /\ TrailHasRoomUpTo(limit)
  /\ currentLat' = currentLat + latChange
  /\ currentLng' = currentLng + lngChange
  /\ movementHistory' = updateMovementHistory(movementHistory, currentLat', currentLng')
  /\ storage' = IF rev = "p000"
                THEN saveGameState(currentLat', currentLng', movementHistory',
                                   playerCoins, cellStates, heap)
                ELSE storage
  /\ alerted' = ""
  /\ captured' = Voided
  /\ UNCHANGED <<rev, phase, playerCoins, cellStates, heap, markers, popup,
                 geoPending, mementos, originator>>

movePlayer(latChange, lngChange) == movePlayerUpTo(MaxTrail, latChange, lngChange)

\* a moveend whose generation is not a function of the state: it draws the caches
\* around the player or around the classroom
moveendAnywhere ==
  /\ phase = "ready"
  /\ \E at \in {<<currentLat, currentLng>>, <<OAKES.lat, OAKES.lng>>} :
       LET w == Redrawn(at[1], at[2], World) IN
       /\ cellStates' = w.cs
       /\ heap' = w.heap
       /\ markers' = w.markers
  /\ popup' = PopupAfterRedraw
  /\ alerted' = ""
  /\ captured' = Voided
  /\ UNCHANGED <<rev, phase, currentLat, currentLng, movementHistory, playerCoins,
                 geoPending, mementos, originator, storage>>

\* map.on("moveend", updateVisibleCaches): the view has come to rest, after a pan
\* that panTo or setView (handleCoinClick of part_000) began, after the player has
\* dragged the map, or after a popup has panned it into view
moveend ==
  /\ phase = "ready"
  /\ LET w == Redrawn(currentLat, currentLng, World) IN
     /\ cellStates' = w.cs
     /\ heap' = w.heap
     /\ markers' = w.markers
  /\ popup' = PopupAfterRedraw
  /\ alerted' = ""
  /\ captured' = Voided
  /\ UNCHANGED <<rev, phase, currentLat, currentLng, movementHistory, playerCoins,
                 geoPending, mementos, originator, storage>>

\* geoButton click: navigator.geolocation.getCurrentPosition(success, error)
geoClick ==
  /\ HasTrail
  /\ phase = "ready"
  /\ geoPending' = TRUE
  /\ alerted' = ""
  /\ UNCHANGED <<rev, phase, currentLat, currentLng, movementHistory, playerCoins,
                 cellStates, heap, markers, popup, mementos, originator, storage>>
  /\ captured' = Unpaired

\* a success callback that checks for staleness: it takes the fix only if the player
\* has not moved since the start, and drops it otherwise
geoSuccessUnlessMoved(limit, fix, more) ==
  /\ phase = "ready"
  /\ geoPending
  /\ TrailHasRoomUpTo(limit)
  /\ geoPending' = more
  /\ LET stale == Len(movementHistory) > 1
         lat == IF stale THEN currentLat ELSE fix.lat
         lng == IF stale THEN currentLng ELSE fix.lng
     IN /\ currentLat' = lat
        /\ currentLng' = lng
        /\ movementHistory' = IF stale THEN movementHistory
                              ELSE updateMovementHistory(movementHistory, lat, lng)
        /\ LET w == Redrawn(lat, lng, World) IN
           /\ cellStates' = w.cs
           /\ heap' = w.heap
           /\ markers' = w.markers
  /\ alerted' = ""
  /\ UNCHANGED <<rev, phase, playerCoins, popup, mementos, originator, storage>>
  /\ captured' = Voided

\* the success callback of an outstanding request; more: others are still outstanding;
\* taken while the trail is shorter than limit
geoSuccessUpTo(limit, fix, more) ==
  /\ phase = "ready"
  /\ geoPending
  /\ TrailHasRoomUpTo(limit)
  /\ geoPending' = more
  /\ currentLat' = fix.lat
  /\ currentLng' = fix.lng
  /\ movementHistory' = updateMovementHistory(movementHistory, fix.lat, fix.lng)
  /\ LET w == Redrawn(fix.lat, fix.lng, World) IN
     /\ cellStates' = w.cs
     /\ heap' = w.heap
     /\ markers' = w.markers
  /\ alerted' = ""
  /\ UNCHANGED <<rev, phase, playerCoins, popup, mementos, originator, storage>>
  /\ captured' = Voided

geoSuccess(fix, more) == geoSuccessUpTo(MaxTrail, fix, more)

\* the error callback of an outstanding request
geoError(more) ==
  /\ phase = "ready"
  /\ geoPending
  /\ geoPending' = more
  /\ alerted' = "Geolocation"
  /\ UNCHANGED <<rev, phase, currentLat, currentLng, movementHistory, playerCoins,
                 cellStates, heap, markers, popup, mementos, originator, storage>>
  /\ captured' = Unpaired

----------------------------------------------------------------------------
(* resetGame (main.ts, part_000) *)

\* playerCoins.forEach((coin) => { const st = cellStates.get(key); if (st) st.coins.push(coin) })
RECURSIVE ReturnCoins(_, _, _, _)
ReturnCoins(coins, n, m, h) ==
  IF n > Len(coins) THEN h
  ELSE LET st == MapGet(m, CoinKey(coins[n])) IN
       ReturnCoins(coins, n + 1, m,
                   IF st # NoObj THEN [h EXCEPT ![st].coins = Append(@, coins[n])] ELSE h)

\* extrinsicState.coins.forEach((coin) => { if (orig && orig !== extrinsicState) orig.coins.push(coin) })
RECURSIVE SendHome(_, _, _, _, _)
SendHome(coins, n, st, m, h) ==
  IF n > Len(coins) THEN h
  ELSE LET orig == MapGet(m, CoinKey(coins[n])) IN
       SendHome(coins, n + 1, st, m,
                IF orig # NoObj /\ orig # st
                THEN [h EXCEPT ![orig].coins = Append(@, coins[n])] ELSE h)

\* coins.filter((coin) => `${coin.i},${coin.j}` === `${extrinsicState.i},${extrinsicState.j}`)
OwnCoins(coins, state) ==
  SelectSeq(coins, LAMBDA coin : CoinKey(coin) = CellKey(state.i, state.j))

\* cellStates.forEach((extrinsicState) => { ... }); r.heap is the heap, r.old[obj] the
\* array that obj.coins named until the filter assigned it a new one
RECURSIVE ResetCells(_, _, _)
ResetCells(m, n, r) ==
  IF n > Len(m) THEN r
  ELSE LET st == m[n].obj
           h1 == SendHome(r.heap[st].coins, 1, st, m, r.heap)
           h2 == [h1 EXCEPT ![st].coins = OwnCoins(@, h1[st])]
       IN ResetCells(m, n + 1,
            [heap |-> h2,
             old |-> [o \in DOMAIN r.old \cup {st} |-> IF o = st THEN h1[st].coins ELSE r.old[o]]])

ResetCoins(inv, m, h) ==
  ResetCells(m, 1, [heap |-> ReturnCoins(inv, 1, m, h), old |-> <<>>])

\* a resetGame that returns copies of the coins and leaves the inventory alone
resetGameKeepingInventory ==
  /\ HasTrail
  /\ phase = "ready"
  /\ currentLat' = OAKES.lat
  /\ currentLng' = OAKES.lng
  /\ movementHistory' = <<OAKES>>
  /\ playerCoins' = playerCoins
  /\ LET r == ResetCoins(playerCoins, cellStates, heap)
         w == Redrawn(OAKES.lat, OAKES.lng, [World EXCEPT !.heap = r.heap])
     IN /\ cellStates' = w.cs
        /\ heap' = w.heap
        /\ markers' = w.markers
        \* an open popup's listeners keep the array they closed over
        /\ popup' = IF popup.open /\ ~popup.stale /\ popup.obj \in DOMAIN r.old
                    THEN [popup EXCEPT !.stale = TRUE, !.arr = r.old[popup.obj]]
                    ELSE popup
  /\ alerted' = ""
  /\ UNCHANGED <<rev, phase, geoPending, mementos, originator, storage>>
  /\ captured' = Voided

resetGame ==
  /\ HasTrail
  /\ phase = "ready"
  /\ currentLat' = OAKES.lat
  /\ currentLng' = OAKES.lng
  /\ movementHistory' = <<OAKES>>
  /\ playerCoins' = <<>>
  /\ LET r == ResetCoins(playerCoins, cellStates, heap)
         w == Redrawn(OAKES.lat, OAKES.lng, [World EXCEPT !.heap = r.heap])
     IN /\ cellStates' = w.cs
        /\ heap' = w.heap
        /\ markers' = w.markers
        \* an open popup's listeners keep the array they closed over
        /\ popup' = IF popup.open /\ ~popup.stale /\ popup.obj \in DOMAIN r.old
                    THEN [popup EXCEPT !.stale = TRUE, !.arr = r.old[popup.obj]]
                    ELSE popup
  /\ alerted' = ""
  /\ UNCHANGED <<rev, phase, geoPending, mementos, originator, storage>>
  /\ captured' = Voided

----------------------------------------------------------------------------
(* Snapshot manager: ConcreteMemento, Originator, Caretaker *)

\* new Map(state): a new Map with the same entries, that is the same state objects
ConcreteMemento(state) == state

\* Originator.state: the Map it was constructed with (cellStates itself) until
\* restore() assigns it a memento's Map
OriginatorState == IF originator.alias THEN cellStates ELSE originator.map

\* Originator.save()
save == ConcreteMemento(OriginatorState)

\* Caretaker.backup(), from the saveState button
backup ==
  /\ phase = "ready"
  /\ Len(mementos) < MaxMementos
  /\ mementos' = Append(mementos, save)
  /\ alerted' = ""
  /\ UNCHANGED <<rev, phase, currentLat, currentLng, movementHistory, playerCoins,
                 cellStates, heap, markers, popup, geoPending, originator, storage>>
  /\ captured' = [captured EXCEPT !.last = NoCollect, !.events = Counted,
                                   !.snaps = Append(@,
                     IF captured.on
                     THEN [valid |-> TRUE, lists |-> CoinLists(cellStates, heap)]
                     ELSE NoLists)]

\* Originator.restore(memento): this.state = memento.getState(); updateVisibleCaches()
restore(memento) ==
  /\ originator' = [alias |-> FALSE, map |-> memento]
  /\ LET w == Redrawn(currentLat, currentLng, World) IN
     /\ cellStates' = w.cs
     /\ heap' = w.heap
     /\ markers' = w.markers
  /\ popup' = PopupAfterRedraw

\* an undo() that also takes the player back: the inventory is emptied and the
\* player returns to the start
undoResettingPlayer ==
  /\ phase = "ready"
  /\ IF Len(mementos) = 0
     THEN UNCHANGED <<mementos, originator, cellStates, heap, markers, popup,
                      currentLat, currentLng, movementHistory, playerCoins>>
     ELSE /\ mementos' = Front(mementos)
          /\ restore(Last(mementos))
          /\ currentLat' = OAKES.lat
          /\ currentLng' = OAKES.lng
          /\ movementHistory' = IF HasTrail THEN <<OAKES>> ELSE <<>>
          /\ playerCoins' = <<>>
  /\ alerted' = ""
  /\ UNCHANGED <<rev, phase, geoPending, storage>>
  /\ captured' = IF Len(mementos) = 0 THEN Unpaired
                 ELSE [captured EXCEPT !.snaps = Front(@), !.last = NoCollect,
                                       !.events = Counted]

\* an undo() that refreshes the caches even when there is no memento to restore
undoAlwaysRefreshes ==
  /\ phase = "ready"
  /\ IF Len(mementos) = 0
     THEN /\ UNCHANGED <<mementos, originator>>
          /\ LET w == Redrawn(currentLat, currentLng, World) IN
             /\ cellStates' = w.cs
             /\ heap' = w.heap
             /\ markers' = w.markers
          /\ popup' = PopupAfterRedraw
     ELSE /\ mementos' = Front(mementos)
          /\ restore(Last(mementos))
  /\ alerted' = ""
  /\ UNCHANGED <<rev, phase, currentLat, currentLng, movementHistory, playerCoins,
                 geoPending, storage>>
  /\ captured' = IF Len(mementos) = 0 THEN Unpaired
                 ELSE [captured EXCEPT !.snaps = Front(@), !.last = NoCollect,
                                       !.events = Counted]

\* Caretaker.undo(), from the restoreState button
undo ==
  /\ phase = "ready"
  /\ IF Len(mementos) = 0
     THEN UNCHANGED <<mementos, originator, cellStates, heap, markers, popup>>
     ELSE /\ mementos' = Front(mementos)
          /\ restore(Last(mementos))
  /\ alerted' = ""
  /\ UNCHANGED <<rev, phase, currentLat, currentLng, movementHistory, playerCoins,
                 geoPending, storage>>
  /\ captured' = IF Len(mementos) = 0 THEN Unpaired
                 ELSE [captured EXCEPT !.snaps = Front(@), !.last = NoCollect,
                                       !.events = Counted]

----------------------------------------------------------------------------
(* The program, one specification per revision and one for all three *)

NextMain ==
  \/ \E key \in DOMAIN markers : openPopup(key)
  \/ collectClick
  \/ depositClick
  \/ \E d \in Directions : movePlayer(d[1], d[2])
  \/ moveend
  \/ geoClick
  \/ \E fix \in GeoFixes, more \in BOOLEAN : geoSuccess(fix, more)
  \/ \E more \in BOOLEAN : geoError(more)
  \/ resetGame
  \/ backup
  \/ undo

Next000 ==
  \/ loadGameState
  \/ reload
  \/ \E key \in DOMAIN markers : collectCoin(key)
  \/ \E key \in DOMAIN markers : depositCoin(key)
  \/ \E d \in Directions : movePlayer(d[1], d[2])
  \/ moveend
  \/ geoClick
  \/ \E fix \in GeoFixes, more \in BOOLEAN : geoSuccess(fix, more)
  \/ \E more \in BOOLEAN : geoError(more)
  \/ resetGame
  \/ backup
  \/ undo

Next001 ==
  \/ \E key \in DOMAIN markers : openPopup(key)
  \/ collectClick
  \/ depositClick
  \/ \E d \in Directions : movePlayer(d[1], d[2])
  \/ moveend
  \/ backup
  \/ undo

Next ==
  \/ \E key \in DOMAIN markers : openPopup(key)
  \/ collectClick
  \/ depositClick
  \/ loadGameState
  \/ reload
  \/ \E key \in DOMAIN markers : collectCoin(key)
  \/ \E key \in DOMAIN markers : depositCoin(key)
  \/ \E d \in Directions : movePlayer(d[1], d[2])
  \/ moveend
  \/ geoClick
  \/ \E fix \in GeoFixes, more \in BOOLEAN : geoSuccess(fix, more)
  \/ \E more \in BOOLEAN : geoError(more)
  \/ resetGame
  \/ backup
  \/ undo

\* main.ts and part_000 with nothing but the movement buttons, the map and the
\* geolocation button in use, and a longer trail
NextGeo ==
  \/ loadGameState
  \/ \E d \in Directions : movePlayerUpTo(MaxGeoTrail, d[1], d[2])
  \/ moveend
  \/ geoClick
  \/ \E fix \in GeoFixes, more \in BOOLEAN : geoSuccessUpTo(MaxGeoTrail, fix, more)
  \/ \E more \in BOOLEAN : geoError(more)

InitGeo == InitMain \/ Init000

\* part_000 started on a storage slot that holds something else than a saved game
InitCorrupt == \E st \in CorruptSaves : Boot("p000", st, FALSE)

NextCorrupt ==
  \/ loadGameState
  \/ reload
  \/ \E key \in DOMAIN markers : collectCoin(key)
  \/ \E key \in DOMAIN markers : depositCoin(key)
  \/ \E d \in Directions : movePlayer(d[1], d[2])
  \/ moveend

\* main.ts and part_001 with the ledger, the movement buttons, the map and the reset
\* button in use, and the collect click before a deposit click written down
InitPairs == \E r \in {"main", "p001"} : BootWith(r, NoSave, History(FALSE, TRUE))

NextPairs ==
  \/ \E key \in DOMAIN markers : openPopup(key)
  \/ collectClick
  \/ depositClick
  \/ \E d \in Directions : movePlayer(d[1], d[2])
  \/ moveend
  \/ resetGame

\* main.ts with its events counted, up to MaxEvents of them
InitRun == BootWith("main", NoSave, [History(FALSE, FALSE) EXCEPT !.counting = TRUE])

EventsLeft == captured.events < MaxEvents

NextRun ==
  \/ EventsLeft /\ \E key \in DOMAIN markers : openPopup(key)
  \/ EventsLeft /\ collectClick
  \/ EventsLeft /\ depositClick
  \/ EventsLeft /\ \E d \in Directions : movePlayer(d[1], d[2])
  \/ EventsLeft /\ moveend
  \/ EventsLeft /\ geoClick
  \/ EventsLeft /\ \E fix \in GeoFixes, more \in BOOLEAN : geoSuccess(fix, more)
  \/ EventsLeft /\ \E more \in BOOLEAN : geoError(more)
  \/ EventsLeft /\ resetGame
  \/ EventsLeft /\ backup
  \/ EventsLeft /\ undo

SpecMain == InitMain /\ [][NextMain]_vars
SpecUndo == InitUndo /\ [][NextMain]_vars
Spec000 == Init000 /\ [][Next000]_vars
Spec001 == Init001 /\ [][Next001]_vars
SpecCorrupt == InitCorrupt /\ [][NextCorrupt]_vars
\* main.ts with the movement buttons, the map, the popups, Collect and the reset
\* button in use, a longer trail and more coins
InitWalk == InitMain

NextWalk ==
  \/ \E d \in Directions : movePlayerUpTo(MaxWalkTrail, d[1], d[2])
  \/ moveend
  \/ \E key \in DOMAIN markers : openPopup(key)
  \/ collectClickUpTo(MaxWalkCoins)
  \/ resetGame

SpecWalk == InitWalk /\ [][NextWalk]_vars
SpecRun == InitRun /\ [][NextRun]_vars
SpecPairs == InitPairs /\ [][NextPairs]_vars
SpecGeo == InitGeo /\ [][NextGeo]_vars
Spec == Init /\ [][Next]_vars

----------------------------------------------------------------------------
(* Vocabulary of the properties *)

\* all coins of the live world
Total == TotalCoins(cellStates, heap, playerCoins)

\* the coin list of the cell at key in the live store (empty if there is no such cell)
LiveList(key) ==
  IF MapGet(cellStates, key) = NoObj THEN <<>> ELSE heap[MapGet(cellStates, key)].coins

\* the same after the step
LiveListAfter(key) ==
  IF MapGet(cellStates', key) = NoObj THEN <<>> ELSE heap'[MapGet(cellStates', key)].coins

\* a click on Collect / on Deposit in the popup of the cache at key
CollectOn(key) == (collectClick /\ popup.key = key) \/ collectCoin(key)
DepositOn(key) == (depositClick /\ popup.key = key) \/ depositCoin(key)

CollectStep == \E key \in DOMAIN markers : CollectOn(key)
DepositStep == \E key \in DOMAIN markers : DepositOn(key)

\* everything but the target's own list that a ledger click must leave alone
OtherListsKept(key) ==
  /\ MapKeys(cellStates') = MapKeys(cellStates)
  /\ \A k \in MapKeys(cellStates) \ {key} : LiveListAfter(k) = LiveList(k)

----------------------------------------------------------------------------
(* C1 *)

\* C1: every collect or deposit click, failing or not, leaves the number of coins in
\* all cell lists plus the inventory as it was (all three revisions).
C1_LedgerConservesTotal ==
  [][(CollectStep \/ DepositStep) =>
       TotalCoins(cellStates', heap', playerCoins') = Total]_vars

----------------------------------------------------------------------------
(* C2 *)

\* some cell index is generated by spawnCache in this step
GeneratesCell == ~(MapKeys(cellStates') \subseteq MapKeys(cellStates))

\* C2: within a session (between two page loads) the number of coins changes only in
\* a step that generates a cell index not generated before, and spawnCache never
\* replaces the state object of an index it has generated.
C2_OnlyGenerationChangesTotal ==
  [][~reload =>
       /\ TotalCoins(cellStates', heap', playerCoins') # Total => GeneratesCell
       /\ ~loadGameState =>
            \A k \in MapKeys(cellStates) :
               MapGet(cellStates', k) = MapGet(cellStates, k)]_vars

----------------------------------------------------------------------------
(* C3 *)

\* C3: undo() after backup() and nothing but collect/deposit clicks in between leaves
\* every cell that the live store held at backup() with the coin list it had then.
C3_UndoRestoresLists ==
  [][(Len(mementos) > 0 /\ undo /\ Last(captured.snaps).valid) =>
       \A k \in DOMAIN Last(captured.snaps).lists :
          LiveListAfter(k) = Last(captured.snaps).lists[k]]_vars

----------------------------------------------------------------------------
(* C4 *)

\* C4: as long as a memento is on the Caretaker's stack, the coin list it records for
\* each cell does not change, whatever step is taken.
C4_MementoListsNeverChange ==
  [][\A n \in 1..Len(mementos) :
       (n <= Len(mementos') /\ mementos'[n] = mementos[n]) =>
         CoinLists(mementos[n], heap') = CoinLists(mementos[n], heap)]_vars

----------------------------------------------------------------------------
(* C5 *)

\* what a failing ledger click must leave alone
LedgerStateKept ==
  /\ CoinLists(cellStates', heap') = CoinLists(cellStates, heap)
  /\ UNCHANGED <<playerCoins, currentLat, currentLng, movementHistory, storage>>

\* C5: a click on Collect in the popup of a cache whose coin list is empty changes no
\* cell list, nor the inventory, the position, the trail or the persisted slot.
C5_EmptyCollectNoEffect ==
  [][\A key \in DOMAIN markers :
       (CollectOn(key) /\ Len(LiveList(key)) = 0) => LedgerStateKept]_vars

----------------------------------------------------------------------------
(* C6 *)

\* C6: a click on Deposit while the inventory is empty changes no cell list, nor the
\* inventory, the position, the trail or the persisted slot, and rewrites no coin of
\* any state object (all three revisions).
C6_EmptyDepositNoEffect ==
  [][(DepositStep /\ Len(playerCoins) = 0) => (LedgerStateKept /\ heap' = heap)]_vars

\* a deposit click has just failed on an empty inventory, in the revision that
\* re-stamps deposited coins
C6_EmptyDepositHappens ==
  rev = "p001" /\ alerted = "EmptyInventory" /\ Len(playerCoins) = 0 /\ popup.open

----------------------------------------------------------------------------
(* C7 *)

\* C7: a collect click that succeeds on the cache at key, whose list is c1..cn, leaves
\* that list c1..c(n-1), the inventory followed by cn, and every other list as it was.
C7_CollectIsLIFO ==
  [][\A key \in DOMAIN markers :
       (CollectOn(key) /\ playerCoins' # playerCoins /\ Len(LiveList(key)) >= 1) =>
         /\ LiveListAfter(key) = Front(LiveList(key))
         /\ playerCoins' = Append(playerCoins, Last(LiveList(key)))
         /\ OtherListsKept(key)]_vars

----------------------------------------------------------------------------
(* C8 *)

\* C8: in main.ts and part_000, a deposit click that succeeds on the cache at key with
\* inventory p1..pm leaves the inventory p1..p(m-1), that cache's list followed by pm,
\* and every other list as it was.
C8_DepositTakesLast ==
  [][\A key \in DOMAIN markers :
       (HasTrail /\ DepositOn(key) /\ Len(playerCoins) >= 1) =>
         /\ playerCoins' = Front(playerCoins)
         /\ LiveListAfter(key) = Append(LiveList(key), Last(playerCoins))
         /\ OtherListsKept(key)]_vars

----------------------------------------------------------------------------
(* C9 *)

\* the cell states of a Map, by key
CellsOf(m, h) == [k \in MapKeys(m) |-> h[MapGet(m, k)]]

\* saveGameState in the present state, then loadGameState on the stored text in a
\* freshly evaluated module
SavedThenLoaded ==
  Loaded(saveGameState(currentLat, currentLng, movementHistory, playerCoins,
                       cellStates, heap).text, BootWorld)

\* position, trail and inventory come back as they are
PlayerRestored(r) ==
  /\ r.lat = currentLat
  /\ r.lng = currentLng
  /\ r.trail = movementHistory
  /\ r.inv = playerCoins

\* C9 as stated: in part_000, saveGameState followed by loadGameState gives back the
\* position, the trail, the inventory and the cell mapping (keys, i, j, coin lists in
\* order) of the state in which saveGameState ran.
C9_RoundTripExact ==
  rev = "p000" =>
    /\ PlayerRestored(SavedThenLoaded)
    /\ CellsOf(SavedThenLoaded.world.cs, SavedThenLoaded.world.heap) = CellsOf(cellStates, heap)

\* C9 amended: the same, but the loaded mapping may hold, besides every saved cell
\* unchanged, cells that loadGameState's updateVisibleCaches generates around the
\* restored position.
C9_RoundTripUpToGeneration ==
  rev = "p000" =>
    LET after == CellsOf(SavedThenLoaded.world.cs, SavedThenLoaded.world.heap)
        before == CellsOf(cellStates, heap)
    IN /\ PlayerRestored(SavedThenLoaded)
       /\ DOMAIN before \subseteq DOMAIN after
       /\ \A k \in DOMAIN before : after[k] = before[k]
       /\ \A k \in DOMAIN after \ DOMAIN before :
            /\ InNeighborhood(k, latToI(currentLat), lngToJ(currentLng))
            /\ Spawns(k)
            /\ after[k] = [i |-> k[1], j |-> k[2], coins |-> InitialCoins(k[1], k[2])]

\* loadGameState has just run on a stored text that has a trail and an inventory and
\* lacks a cell of the restored position's neighbourhood: the live mapping has it
C9_LoadedWithGeneratedCell ==
  /\ rev = "p000"
  /\ phase = "ready"
  /\ storage.shape = "state"
  /\ LET r == Loaded(storage.text, BootWorld) IN
     /\ PlayerRestored(r)
     /\ cellStates = r.world.cs
     /\ heap = r.world.heap
     /\ markers = r.world.markers
  /\ Len(movementHistory) > 1
  /\ Len(playerCoins) > 0
  /\ Len(cellStates) > Len(storage.text.cellStates)

----------------------------------------------------------------------------
(* C10 *)

\* no two coins of the list share a serial
SerialsDistinct(coins) ==
  \A a, b \in 1..Len(coins) : coins[a].serial = coins[b].serial => a = b

\* C10: in main.ts and part_000, no coin list of cellStates holds two coins with the
\* same serial, in any reachable state.
C10_SerialsUniquePerList ==
  HasTrail => \A n \in 1..Len(cellStates) : SerialsDistinct(heap[cellStates[n].obj].coins)

----------------------------------------------------------------------------
(* C11 *)

\* the coins of cells n.. of the Map m, list after list
RECURSIVE CoinsFrom(_, _, _)
CoinsFrom(m, n, h) ==
  IF n > Len(m) THEN <<>> ELSE h[m[n].obj].coins \o CoinsFrom(m, n + 1, h)

\* every coin of the world: the coin lists of cellStates, then the inventory
AllCoins == CoinsFrom(cellStates, 1, heap) \o playerCoins

\* C11: in every reachable state no two coins of the world (all coin lists of
\* cellStates and the inventory) carry the same triple (i, j, serial).
C11_CoinTriplesUnique ==
  \A a, b \in 1..Len(AllCoins) : AllCoins[a] = AllCoins[b] => a = b

----------------------------------------------------------------------------
(* C12 *)

\* a step whose handler calls updateVisibleCaches and does nothing else to the coins
SpawnsOnly ==
  moveend \/ undo \/ \E fix \in GeoFixes, more \in BOOLEAN : geoSuccess(fix, more)

\* every handler that a click can reach holds the state object, and the coins array,
\* that cellStates stores for its cell
HandlersShareState ==
  /\ \A k \in DOMAIN markers : markers[k].obj = MapGet(cellStates, k)
  /\ popup.open => (~popup.stale /\ popup.obj = MapGet(cellStates, popup.key))

\* C12: within a session (no page load in between) a cell index that has a state
\* keeps the very same state object in every later step, a step that only runs
\* updateVisibleCaches leaves its coins as they are (an emptied cache stays empty),
\* and every handler of the cell holds that one object.
C12_SpawnCacheMemoizes ==
  [][~reload =>
       /\ \A k \in MapKeys(cellStates) : MapGet(cellStates', k) = MapGet(cellStates, k)
       /\ SpawnsOnly => \A k \in MapKeys(cellStates) : LiveListAfter(k) = LiveList(k)
       /\ HandlersShareState]_vars

\* the memoization of spawnCache alone, handlers and loadGameState left aside
SpawnKeepsState ==
  [][(~reload /\ ~loadGameState) =>
       /\ \A k \in MapKeys(cellStates) : MapGet(cellStates', k) = MapGet(cellStates, k)
       /\ SpawnsOnly => \A k \in MapKeys(cellStates) : LiveListAfter(k) = LiveList(k)]_vars

----------------------------------------------------------------------------
(* C13 *)

\* C13: whatever button moves and other callbacks came before it, the success
\* callback of a geolocation request leaves the player at the position it reports,
\* so the position after several callbacks is that of the one that ran last.
C13_GeoLastWriteWins ==
  [][\A fix \in GeoFixes, more \in BOOLEAN :
       geoSuccessUpTo(MaxGeoTrail, fix, more) =>
         (currentLat' = fix.lat /\ currentLng' = fix.lng)]_vars

\* a success callback has run after a button move away from the start: the trail is
\* start, the position moved to, the reported position, and the player is at the last
C13_FixAfterMove ==
  /\ Len(movementHistory) = 3
  /\ movementHistory[2] = [lat |-> OAKES.lat + TILE_DEGREES, lng |-> OAKES.lng]
  /\ movementHistory[3] \in GeoFixes
  /\ currentLat = movementHistory[3].lat
  /\ currentLng = movementHistory[3].lng

----------------------------------------------------------------------------
(* C14 *)

\* the slot holds a text that does not parse, or that parses to an object without
\* one of the expected fields
CorruptSave ==
  \/ storage.shape = "unparsable"
  \/ storage.shape = "state" /\ DOMAIN storage.text # GameStateFields

\* the player of a fresh game, after the step
FreshPlayerAfter ==
  /\ currentLat' = OAKES.lat
  /\ currentLng' = OAKES.lng
  /\ movementHistory' = <<OAKES>>
  /\ playerCoins' = <<>>

\* C14: in part_000, loadGameState on a slot whose text does not parse or lacks an
\* expected field ends with the player at the origin, the trail [origin] and an empty
\* inventory, never with a part of the text loaded.
C14_CorruptSaveFallsBack ==
  [][(loadGameState /\ CorruptSave) => FreshPlayerAfter]_vars

----------------------------------------------------------------------------
(* C15 *)

\* loadGameState runs on a slot that holds nothing
FirstRun == loadGameState /\ storage.shape = "absent"

\* C15 as stated: in part_000, after loadGameState on an empty slot the player is at
\* the origin, the trail is [origin], the inventory is empty and the cell mapping is
\* empty.
C15_FirstRunEmptyMapping ==
  [][FirstRun => (FreshPlayerAfter /\ cellStates' = <<>>)]_vars

\* C15 amended: the same, but the cell mapping holds the caches of the origin's
\* neighbourhood, each with the coins it is generated with.
C15_FirstRunFreshWorld ==
  [][FirstRun =>
       /\ FreshPlayerAfter
       /\ CellsOf(cellStates', heap') = CellsOf(BootWorld.cs, BootWorld.heap)
       /\ cellStates' # <<>>]_vars

\* loadGameState has run on an empty slot: the game is ready, nothing is stored, the
\* player is at the origin and a cache of the neighbourhood is in the mapping
C15_FirstRunDone ==
  /\ rev = "p000"
  /\ phase = "ready"
  /\ storage.shape = "absent"
  /\ currentLat = OAKES.lat /\ currentLng = OAKES.lng
  /\ movementHistory = <<OAKES>>
  /\ playerCoins = <<>>
  /\ Len(cellStates) > 0
  /\ alerted = ""

----------------------------------------------------------------------------
(* C16 *)

\* C16: undo() with no memento on the stack leaves the stack empty and the
\* Originator's state, every cell and its coin list, the inventory and the position
\* as they are, and draws nothing (no cache refresh).
C16_EmptyUndoNoOp ==
  [][(undo /\ Len(mementos) = 0) =>
       /\ mementos' = <<>>
       /\ originator' = originator
       /\ CoinLists(cellStates', heap') = CoinLists(cellStates, heap)
       /\ UNCHANGED <<cellStates, heap, markers, popup>>
       /\ UNCHANGED <<playerCoins, currentLat, currentLng>>]_vars

\* the stack is empty and the player has moved to where a cache refresh would
\* generate a cell that the mapping does not hold yet
C16_EmptyStackBeforeRefresh ==
  /\ phase = "ready"
  /\ Len(mementos) = 0
  /\ originator = LiveOriginator
  /\ Redrawn(currentLat, currentLng, World).cs # cellStates

----------------------------------------------------------------------------
(* C17 *)

\* C17: undo(), whether the stack is empty or not, leaves the inventory (content and
\* order), the position and the movement trail as they are.
C17_UndoKeepsPlayer ==
  [][undo => UNCHANGED <<playerCoins, currentLat, currentLng, movementHistory>>]_vars

\* a memento has been restored (the Originator holds its Map, the stack is empty
\* again) while the player, away from the start, holds a coin
C17_RestoredWithPlayerAway ==
  /\ ~originator.alias
  /\ Len(mementos) = 0
  /\ Len(playerCoins) > 0
  /\ currentLat # OAKES.lat
  /\ HasTrail => Len(movementHistory) > 1

----------------------------------------------------------------------------
(* C18 *)

\* the step is the start of a session: the page is loaded, or the load event restores
\* what an earlier session stored
SessionStart == reload \/ loadGameState

\* C18 as stated: within a session the inventory differs between two consecutive
\* states only when the step is a collect or a deposit click that succeeds; moves,
\* geolocation, cache refresh, backup, undo and resetGame leave it as it is.
C18_InventoryOnlyByLedger ==
  [][(playerCoins' # playerCoins /\ ~SessionStart) => (CollectStep \/ DepositStep)]_vars

\* C18 amended: the same, except that resetGame empties the inventory.
C18_InventoryByLedgerOrReset ==
  [][/\ (playerCoins' # playerCoins /\ ~SessionStart) =>
          (CollectStep \/ DepositStep \/ resetGame)
     /\ resetGame => playerCoins' = <<>>]_vars

\* resetGame has emptied an inventory that held a coin: in part_000 the slot, written
\* by the last ledger click, still records the coin, and the player is back at the
\* start with nothing
C18_ResetEmptiedInventory ==
  /\ rev = "p000"
  /\ phase = "ready"
  /\ storage.shape = "state"
  /\ Len(storage.text.playerCoins) > 0
  /\ playerCoins = <<>>
  /\ movementHistory = <<OAKES>>
  /\ Len(storage.text.movementHistory) > 1

----------------------------------------------------------------------------
(* C19 *)

\* the cell indices for which spawnCache finds no entry in this step: those new to the
\* mapping, apart from the ones that loadGameState takes from the stored text
GeneratedKeys ==
  IF loadGameState /\ storage.shape = "state"
  THEN MapKeys(cellStates') \ {storage.text.cellStates[n][1] : n \in 1..Len(storage.text.cellStates)}
  ELSE MapKeys(cellStates') \ MapKeys(cellStates)

\* state is what a first generation stores for the index k: i and j are the index,
\* and the coins are n coins of origin k with serials 0 .. n-1 in that order, where
\* n = floor(luck * max) is at least 0 and at most max - 1
FirstGenerated(state, k) ==
  LET n == (luck(k[1], k[2], "initialCoins") * MaxCoinsPerCache) \div 1000 IN
  /\ state.i = k[1]
  /\ state.j = k[2]
  /\ n >= 0 /\ n <= MaxCoinsPerCache - 1
  /\ Len(state.coins) = n
  /\ \A m \in 1..n : state.coins[m] = [i |-> k[1], j |-> k[2], serial |-> m - 1]

\* C19: the cells that the module's spawn loop generates, and every cell that a later
\* spawnCache generates, are stored with i, j equal to the index and with exactly
\* n = floor(luck(i,j,initialCoins) * max) coins of that origin, serials 0 .. n-1 in
\* order, 0 <= n <= max - 1 (max = 6 in main.ts and part_000, 3 in part_001).
C19_FirstGeneration ==
  /\ \A k \in MapKeys(cellStates) : FirstGenerated(heap[MapGet(cellStates, k)], k)
  /\ [][\A k \in GeneratedKeys : FirstGenerated(heap'[MapGet(cellStates', k)], k)]_vars

\* a spawnCache after the start has generated a cache with two coins or more, which
\* are still as generated
C19_GeneratedSeveralCoins ==
  \E n \in 1..Len(cellStates) :
     /\ cellStates[n].obj[1] = Epoch
     /\ Len(heap[cellStates[n].obj].coins) >= 2
     /\ FirstGenerated(heap[cellStates[n].obj], cellStates[n].key)

----------------------------------------------------------------------------
(* C20 *)

\* the step is a deposit click on the cache from which the step before it has
\* collected a coin
DepositAfterCollect ==
  depositClick /\ captured.last.valid /\ popup.key = captured.last.key

\* C20: in main.ts and part_001, a collect click that succeeds on a cache, followed at
\* once by a deposit click on the same cache, leaves the cache's coin list (length,
\* triples, order) and the inventory as they were before the collect.
C20_CollectDepositRoundTrip ==
  [][DepositAfterCollect =>
       /\ LiveListAfter(captured.last.key) = captured.last.list
       /\ playerCoins' = captured.last.inv]_vars

\* the same for part_001 alone, where a deposit re-stamps the coin
RoundTrip001 ==
  [][(rev = "p001" /\ DepositAfterCollect) =>
       /\ LiveListAfter(captured.last.key) = captured.last.list
       /\ playerCoins' = captured.last.inv]_vars

----------------------------------------------------------------------------
(* C21 *)

\* the step is the event A, and A has no other outcome in the state it is taken in
OneOutcome(A) == \A next \in {vars'} : A => ~ENABLED (A /\ vars' # next)

----------------------------------------------------------------------------
(* Binary64.  The numbers of the program are IEEE 754 binary64 values.  Above,  *)
(* positions are whole multiples of 1e-5 degree that lie inside their tiles,    *)
(* where the arithmetic of the program is exact.  Below, where the rounding of  *)
(* a quotient, a product or a sum matters, a number is the record [neg, m, e]   *)
(* of value (-1)^neg * m * 2^e, with m = 0 or 2^52 <= m < 2^53, and m is a      *)
(* natural number written in limbs of 15 bits, lowest limb first.               *)

LimbBits == 15
Base == 32768
Significand == 53

RECURSIVE Pow2(_)
Pow2(n) == IF n = 0 THEN 1 ELSE 2 * Pow2(n - 1)

Limb(a, n) == IF n <= Len(a) THEN a[n] ELSE 0

RECURSIVE Trim(_)
Trim(a) == IF Len(a) > 0 /\ a[Len(a)] = 0 THEN Trim(SubSeq(a, 1, Len(a) - 1)) ELSE a

RECURSIVE NatToBig(_)
NatToBig(n) == IF n = 0 THEN <<>> ELSE <<n % Base>> \o NatToBig(n \div Base)

RECURSIVE BigToNat(_)
BigToNat(a) == IF Len(a) = 0 THEN 0 ELSE a[1] + Base * BigToNat(Tail(a))

RECURSIVE AddLimbs(_, _, _, _)
AddLimbs(a, b, n, carry) ==
  IF n > Len(a) /\ n > Len(b)
  THEN IF carry = 0 THEN <<>> ELSE <<carry>>
  ELSE LET s == Limb(a, n) + Limb(b, n) + carry IN
       <<s % Base>> \o AddLimbs(a, b, n + 1, s \div Base)

BigAdd(a, b) == AddLimbs(a, b, 1, 0)

\* a - b for a >= b
RECURSIVE SubLimbs(_, _, _, _)
SubLimbs(a, b, n, borrow) ==
  IF n > Len(a) THEN <<>>
  ELSE LET s == a[n] - Limb(b, n) - borrow IN
       <<s % Base>> \o SubLimbs(a, b, n + 1, IF s < 0 THEN 1 ELSE 0)

BigSub(a, b) == Trim(SubLimbs(a, b, 1, 0))

RECURSIVE LessFrom(_, _, _)
LessFrom(a, b, n) ==
  IF n = 0 THEN FALSE
  ELSE IF a[n] # b[n] THEN a[n] < b[n] ELSE LessFrom(a, b, n - 1)

BigLess(a, b) ==
  IF Len(a) # Len(b) THEN Len(a) < Len(b) ELSE LessFrom(a, b, Len(a))

\* a * k for a limb k
RECURSIVE MulLimbs(_, _, _, _)
MulLimbs(a, k, n, carry) ==
  IF n > Len(a)
  THEN IF carry = 0 THEN <<>> ELSE <<carry>>
  ELSE LET s == a[n] * k + carry IN
       <<s % Base>> \o MulLimbs(a, k, n + 1, s \div Base)

BigTimesLimb(a, k) == Trim(MulLimbs(a, k, 1, 0))

ShiftLimbs(a, n) == IF Len(a) = 0 THEN a ELSE [k \in 1..n |-> 0] \o a

RECURSIVE MulFrom(_, _, _)
MulFrom(a, b, n) ==
  IF n > Len(b) THEN <<>>
  ELSE BigAdd(ShiftLimbs(BigTimesLimb(a, b[n]), n - 1), MulFrom(a, b, n + 1))

BigMul(a, b) == MulFrom(a, b, 1)

\* a * 2^n
BigShiftLeft(a, n) == ShiftLimbs(BigTimesLimb(a, Pow2(n % LimbBits)), n \div LimbBits)

RECURSIVE BitsOf(_)
BitsOf(k) == IF k = 0 THEN 0 ELSE 1 + BitsOf(k \div 2)

BitLen(a) == IF Len(a) = 0 THEN 0 ELSE LimbBits * (Len(a) - 1) + BitsOf(a[Len(a)])

\* bit k of a, bit 0 the lowest
Bit(a, k) == (Limb(a, k \div LimbBits + 1) \div Pow2(k % LimbBits)) % 2

\* the largest digit, built from the bit k down on top of d, with b * digit <= a
RECURSIVE DigitFrom(_, _, _, _)
DigitFrom(a, b, k, d) ==
  IF k < 0 THEN d
  ELSE CHOOSE digit \in
         {DigitFrom(a, b, k - 1, d2) :
            d2 \in {IF BigLess(a, BigTimesLimb(b, d + Pow2(k))) THEN d ELSE d + Pow2(k)}} :
         TRUE

\* one step of the long division: the digit of the quotient for the remainder r
DivDigit(r, b, q) ==
  CHOOSE step \in
    {[q |-> Trim(<<d>> \o q), r |-> BigSub(r, BigTimesLimb(b, d))] :
       d \in {DigitFrom(r, b, LimbBits - 1, 0)}} : TRUE

\* long division: the limbs of a from limb n down, with the quotient q and the
\* remainder r of the limbs above
RECURSIVE DivFrom(_, _, _, _, _)
DivFrom(a, b, n, q, r) ==
  IF n = 0 THEN [q |-> q, r |-> r]
  ELSE CHOOSE result \in
         {DivFrom(a, b, n - 1, step.q, step.r) :
            step \in {DivDigit(r2, b, q) : r2 \in {Trim(<<a[n]>> \o r)}}} : TRUE

\* quotient and remainder of a by b > 0
BigDivMod(a, b) ==
  CHOOSE result \in {DivFrom(a1, b1, Len(a1), <<>>, <<>>) : a1 \in {a}, b1 \in {b}} : TRUE

\* the quotient d.q of n by 2^s, rounded by its remainder d.r against half = 2^(s-1)
RoundedUp(neg, d, half, e) ==
  LET up == BigLess(half, d.r) \/ (d.r = half /\ Bit(d.q, 0) = 1)
      q == IF up THEN BigAdd(d.q, <<1>>) ELSE d.q
  IN IF BitLen(q) > Significand
     THEN [neg |-> neg, m |-> BigShiftLeft(<<1>>, Significand - 1), e |-> e + 1]
     ELSE [neg |-> neg, m |-> q, e |-> e]

\* the binary64 value nearest to n * 2^e, ties to even, for n of len bits
Rounded(neg, n, len, e) ==
  IF len = 0 THEN [neg |-> FALSE, m |-> <<>>, e |-> 0]
  ELSE IF len <= Significand
  THEN [neg |-> neg, m |-> BigShiftLeft(n, Significand - len), e |-> e - (Significand - len)]
  ELSE CHOOSE result \in
         {RoundedUp(neg, d, half, e + (len - Significand)) :
            d \in {BigDivMod(n, BigShiftLeft(<<1>>, len - Significand))},
            half \in {BigShiftLeft(<<1>>, len - Significand - 1)}} : TRUE

RoundToNearest(neg, bits, e) ==
  CHOOSE result \in {Rounded(neg, n, BitLen(n), e) : n \in {bits}} : TRUE

\* x / y in binary64: the quotient to two bits more than the significand, the last
\* of them set if anything is left over, then rounded
Quotient(x, y) ==
  CHOOSE result \in
    {RoundToNearest(x.neg # y.neg,
                    BigAdd(BigTimesLimb(d.q, 2), IF Len(d.r) = 0 THEN <<>> ELSE <<1>>),
                    x.e - y.e - (Significand + 3)) :
       d \in {BigDivMod(BigShiftLeft(x.m, Significand + 2), y.m)}} : TRUE

\* i * y in binary64, for an integer i
Product(i, y) ==
  RoundToNearest((i < 0) # y.neg, BigMul(NatToBig(IF i < 0 THEN -i ELSE i), y.m), y.e)

\* x and y on a common exponent
Aligned(x, y) ==
  LET e == IF x.e < y.e THEN x.e ELSE y.e IN
  [e |-> e, x |-> BigShiftLeft(x.m, x.e - e), y |-> BigShiftLeft(y.m, y.e - e)]

\* x + y in binary64
Sum(x, y) ==
  LET a == Aligned(x, y) IN
  IF x.neg = y.neg THEN RoundToNearest(x.neg, BigAdd(a.x, a.y), a.e)
  ELSE IF BigLess(a.x, a.y) THEN RoundToNearest(y.neg, BigSub(a.y, a.x), a.e)
  ELSE RoundToNearest(x.neg, BigSub(a.x, a.y), a.e)

Negated(x) == IF Len(x.m) = 0 THEN x ELSE [x EXCEPT !.neg = ~@]

\* x < y and x <= y, exactly
Less(x, y) ==
  LET a == Aligned(x, y) IN
  IF x.neg # y.neg THEN x.neg
  ELSE IF x.neg THEN BigLess(a.y, a.x) ELSE BigLess(a.x, a.y)

AtMost(x, y) == ~Less(y, x)

\* the whole part of x and whether anything is left over, for x.e < 0
Whole(x) ==
  CHOOSE result \in
    {[n |-> BigToNat(d.q), rest |-> Len(d.r) > 0] :
       d \in {BigDivMod(x.m, BigShiftLeft(<<1>>, -x.e))}} : TRUE

\* Math.floor(x), for |x| < 2^31
Floor(x) ==
  IF Len(x.m) = 0 THEN 0
  ELSE IF x.e >= 0 THEN (IF x.neg THEN -1 ELSE 1) * BigToNat(BigShiftLeft(x.m, x.e))
  ELSE IF x.neg THEN -(Whole(x).n + IF Whole(x).rest THEN 1 ELSE 0)
  ELSE Whole(x).n

\* the binary64 values next to x on either side (x # 0, inside a binade or at its edge)
Above(x) ==
  IF x.neg
  THEN IF x.m = BigShiftLeft(<<1>>, Significand - 1)
       THEN [x EXCEPT !.m = BigSub(BigShiftLeft(<<1>>, Significand), <<1>>), !.e = @ - 1]
       ELSE [x EXCEPT !.m = BigSub(@, <<1>>)]
  ELSE RoundToNearest(FALSE, BigAdd(x.m, <<1>>), x.e)

Below(x) == Negated(Above(Negated(x)))

\* TILE_DEGREES = 1e-4, which is 7378697629483821 * 2^-66 in binary64
TileDegrees == [neg |-> FALSE, m |-> <<17197, 22072, 23435, 209>>, e |-> -66]

\* function latToI(lat) { return Math.floor(lat / TILE_DEGREES) }, and lngToJ
latToIBinary64(lat) == CHOOSE i \in {Floor(q) : q \in {Quotient(lat, TileDegrees)}} : TRUE
lngToJBinary64(lng) == CHOOSE j \in {Floor(q) : q \in {Quotient(lng, TileDegrees)}} : TRUE

\* OAKES = leaflet.latLng(36.98949379578401, -122.06277128548504)
Oakes64 ==
  [lat |-> [neg |-> FALSE, m |-> <<15965, 30500, 31390, 147>>, e |-> -47],
   lng |-> [neg |-> TRUE, m |-> <<4688, 25525, 4113, 244>>, e |-> -46]]

\* longest movement trail in the behaviours that keep their positions in binary64
MaxExactTrail == 3

\* positions that the geolocation can report: OAKES, the border of a tile as the
\* program computes it, i * TILE_DEGREES, and a binary64 value next to such a border
BorderLats ==
  {Oakes64.lat, Product(49, TileDegrees), Above(Product(49, TileDegrees))}
BorderLngs ==
  {Oakes64.lng, Product(-1299997, TileDegrees), Below(Product(-1279996, TileDegrees))}
BorderFixes == {[lat |-> lat, lng |-> lng] : lat \in BorderLats, lng \in BorderLngs}

\* updateVisibleCaches() with the player at (lat, lng)
RedrawnAround(lat, lng, w) ==
  CHOOSE r \in {Collected(u) : u \in {SpawnLoop(Neighborhood(latToIBinary64(lat),
                                                             lngToJBinary64(lng)),
                                                w, Epoch)}} : TRUE

\* movePlayer(latChange, lngChange) of main.ts, for whole numbers of tiles:
\* currentLat += latChange; currentLng += lngChange; updateMovementHistory()
movePlayerExact(latTiles, lngTiles) ==
  /\ phase = "ready"
  /\ Len(movementHistory) < MaxExactTrail
  /\ currentLat' = Sum(currentLat, Product(latTiles, TileDegrees))
  /\ currentLng' = Sum(currentLng, Product(lngTiles, TileDegrees))
  /\ movementHistory' = Append(movementHistory, [lat |-> currentLat', lng |-> currentLng'])
  /\ alerted' = ""
  /\ captured' = Voided
  /\ UNCHANGED <<rev, phase, playerCoins, cellStates, heap, markers, popup,
                 geoPending, mementos, originator, storage>>

\* the map's moveend of main.ts
moveendExact ==
  /\ phase = "ready"
  /\ LET w == RedrawnAround(currentLat, currentLng, World) IN
     /\ cellStates' = w.cs
     /\ heap' = w.heap
     /\ markers' = w.markers
  /\ alerted' = ""
  /\ captured' = Voided
  /\ UNCHANGED <<rev, phase, currentLat, currentLng, movementHistory, playerCoins,
                 popup, geoPending, mementos, originator, storage>>

\* the success callback of getCurrentPosition of main.ts
geoSuccessExact(fix, more) ==
  /\ phase = "ready"
  /\ geoPending
  /\ Len(movementHistory) < MaxExactTrail
  /\ geoPending' = more
  /\ currentLat' = fix.lat
  /\ currentLng' = fix.lng
  /\ movementHistory' = Append(movementHistory, fix)
  /\ LET w == RedrawnAround(fix.lat, fix.lng, World) IN
     /\ cellStates' = w.cs
     /\ heap' = w.heap
     /\ markers' = w.markers
  /\ alerted' = ""
  /\ captured' = Voided
  /\ UNCHANGED <<rev, phase, playerCoins, popup, mementos, originator, storage>>

\* main.ts after the module's evaluation, its positions in binary64
InitExact ==
  /\ rev = "main"
  /\ phase = "ready"
  /\ currentLat = Oakes64.lat
  /\ currentLng = Oakes64.lng
  /\ movementHistory = <<Oakes64>>
  /\ playerCoins = <<>>
  /\ cellStates = BootWorld.cs
  /\ heap = BootWorld.heap
  /\ markers = BootWorld.markers
  /\ popup = NoPopup
  /\ geoPending = FALSE
  /\ mementos = <<>>
  /\ originator = LiveOriginator
  /\ storage = NoSave
  /\ alerted = ""
  /\ captured = History(FALSE, FALSE)

NextExact ==
  \/ \E d \in {<<1, 0>>, <<-1, 0>>, <<0, -1>>, <<0, 1>>} : movePlayerExact(d[1], d[2])
  \/ moveendExact
  \/ geoClick
  \/ \E fix \in BorderFixes, more \in BOOLEAN : geoSuccessExact(fix, more)
  \/ \E more \in BOOLEAN : geoError(more)

SpecExact == InitExact /\ [][NextExact]_vars

----------------------------------------------------------------------------
(* C22 *)

\* i * TILE_DEGREES <= x < (i + 1) * TILE_DEGREES, in the program's arithmetic
InTile(x, i) ==
  /\ AtMost(Product(i, TileDegrees), x)
  /\ Less(x, Product(i + 1, TileDegrees))

\* leaflet.latLngBounds([[i * TILE_DEGREES, j * TILE_DEGREES],
\*                       [(i + 1) * TILE_DEGREES, (j + 1) * TILE_DEGREES]]).contains([lat, lng])
BoundsContain(i, j, lat, lng) ==
  /\ AtMost(Product(i, TileDegrees), lat) /\ AtMost(lat, Product(i + 1, TileDegrees))
  /\ AtMost(Product(j, TileDegrees), lng) /\ AtMost(lng, Product(j + 1, TileDegrees))

\* x lies in the tile of its index only: a tile next to it that holds x is its own
IndexIsTile(x, index) == \A i \in (index - 1)..(index + 1) : InTile(x, i) => index = i

Distance(a, b) == IF a < b THEN b - a ELSE a - b

\* C22: wherever a step puts the player, at (lat, lng), negative or positive, the
\* index latToI(lat) is the i with i * tile <= lat < (i + 1) * tile, and the same for
\* lngToJ(lng); the bounds that spawnCache uses for the cell (latToI(lat), lngToJ(lng))
\* contain (lat, lng); and a move of one tile north, south, east or west changes one
\* of the two indices, by exactly 1.
C22_FloorCellIndex ==
  [][\A i \in {latToIBinary64(currentLat)}, j \in {lngToJBinary64(currentLng)},
        i2 \in {latToIBinary64(currentLat')}, j2 \in {lngToJBinary64(currentLng')} :
       /\ IndexIsTile(currentLat', i2)
       /\ IndexIsTile(currentLng', j2)
       /\ BoundsContain(i2, j2, currentLat', currentLng')
       /\ \A d \in {<<1, 0>>, <<-1, 0>>, <<0, -1>>, <<0, 1>>} :
            movePlayerExact(d[1], d[2]) => Distance(i2, i) + Distance(j2, j) = 1]_vars

\* x lies inside the tile of index i, more than one binary64 value off its borders
Inside(x, i) ==
  /\ Less(Above(Product(i, TileDegrees)), x)
  /\ Less(x, Below(Product(i + 1, TileDegrees)))

\* the same for the positions inside their tiles: there the index is the tile, the
\* bounds contain the position, and a move of one tile changes one index by 1
InsideTilesFloorCellIndex ==
  [][\A i \in {latToIBinary64(currentLat)}, j \in {lngToJBinary64(currentLng)},
        i2 \in {latToIBinary64(currentLat')}, j2 \in {lngToJBinary64(currentLng')} :
       (/\ Inside(currentLat, i) /\ Inside(currentLng, j)
        /\ Inside(currentLat', i2) /\ Inside(currentLng', j2))
       => /\ IndexIsTile(currentLat', i2)
          /\ IndexIsTile(currentLng', j2)
          /\ BoundsContain(i2, j2, currentLat', currentLng')
          /\ \A d \in {<<1, 0>>, <<-1, 0>>, <<0, -1>>, <<0, 1>>} :
               movePlayerExact(d[1], d[2]) => Distance(i2, i) + Distance(j2, j) = 1]_vars

----------------------------------------------------------------------------
(* C23 *)

\* the list holds the coins of the list s, which has no coin twice: each of them
\* once, and no other
SameCoins(list, s) ==
  /\ Len(list) = Len(s)
  /\ \A n \in 1..Len(s) : \E m \in 1..Len(list) : list[m] = s[n]

\* the coins generated for the cells n.. of the Map m, cell after cell
RECURSIVE GeneratedFrom(_, _)
GeneratedFrom(m, n) ==
  IF n > Len(m) THEN <<>>
  ELSE InitialCoins(m[n].key[1], m[n].key[2]) \o GeneratedFrom(m, n + 1)

\* every coin generated for a cell of cellStates is in one place, a coin list or the
\* inventory, and nothing else is anywhere
EveryCoinOnce == SameCoins(AllCoins, GeneratedFrom(cellStates, 1))

\* the player is back at the start with nothing, and every cell has its own coins
BackAtStart ==
  /\ playerCoins' = <<>>
  /\ currentLat' = OAKES.lat
  /\ currentLng' = OAKES.lng
  /\ movementHistory' = <<OAKES>>
  /\ \A k \in MapKeys(cellStates') : SameCoins(LiveListAfter(k), InitialCoins(k[1], k[2]))

\* C23: resetGame (main.ts, part_000), from any reachable state, leaves the inventory
\* empty, the player at OAKES, the trail [OAKES], in every cell's coin list exactly
\* the coins generated for that cell (each once, none missing, none of another cell),
\* and as many coins in the world as before.
C23_ResetReturnsAllCoins ==
  [][resetGame => (BackAtStart /\ TotalCoins(cellStates', heap', playerCoins') = Total)]_vars

\* the same from the states in which every generated coin is in one place
ResetReturnsCoinsKeptOnce ==
  [][(resetGame /\ EveryCoinOnce) =>
       (BackAtStart /\ TotalCoins(cellStates', heap', playerCoins') = Total)]_vars

----------------------------------------------------------------------------
(* C24 *)

\* C24: after resetGame (main.ts, part_000) the coin list of every cell is, as a
\* sequence, the list made when the cell was first generated: serials 0, 1, ..., n-1
\* in that order.
C24_ResetRestoresLists ==
  [][resetGame =>
       \A k \in MapKeys(cellStates') : LiveListAfter(k) = InitialCoins(k[1], k[2])]_vars

\* the same from the states in which every generated coin is in one place; the coins
\* come back in the order in which the inventory holds them
ResetRestoresListsKeptOnce ==
  [][(resetGame /\ EveryCoinOnce) =>
       \A k \in MapKeys(cellStates') : LiveListAfter(k) = InitialCoins(k[1], k[2])]_vars

----------------------------------------------------------------------------
(* C25 *)

\* the memento m has the keys of the live cellStates and, for each key, the coin
\* list that the live cell has
CapturesLive(m) ==
  /\ MapKeys(m) = MapKeys(cellStates)
  /\ \A k \in MapKeys(m) : heap[MapGet(m, k)].coins = LiveList(k)

\* C25: in every reachable state, also after earlier undo() calls and after moving
\* has generated new cells, the memento that Caretaker.backup() pushes has exactly
\* the key set of the live cellStates at that moment and, for each key, the coin list
\* of the live cell.
C25_BackupCapturesLive ==
  [][backup => CapturesLive(Last(mementos'))]_vars

\* the same for the backups taken before any undo() has restored a memento
BackupBeforeUndoCapturesLive ==
  [][(backup /\ originator.alias) => CapturesLive(Last(mementos'))]_vars

----------------------------------------------------------------------------
(* C26 *)

CoinSet(list) == {list[n] : n \in 1..Len(list)}

\* the triples of all coins there are: in the coin list of every state object, live
\* or not, and in the inventory
Triples(h, inv) == UNION {CoinSet(h[o].coins) : o \in DOMAIN h} \cup CoinSet(inv)

\* the triple is the one spawnCache gave a coin of its origin cell
AsGenerated(coin) ==
  \E n \in 1..Len(InitialCoins(coin.i, coin.j)) : InitialCoins(coin.i, coin.j)[n] = coin

\* the triples in the text of the geocoinGameState slot
StoredTriples ==
  IF storage.shape = "state"
  THEN UNION {CoinSet(storage.text.cellStates[n][2].coins) :
                n \in 1..Len(storage.text.cellStates)}
       \cup CoinSet(storage.text.playerCoins)
  ELSE {}

\* the coins of the cells that this step generates; a page load generates the cells
\* around OAKES anew
GeneratedNow ==
  UNION {CoinSet(InitialCoins(k[1], k[2])) :
           k \in IF reload THEN MapKeys(cellStates')
                          ELSE MapKeys(cellStates') \ MapKeys(cellStates)}

\* C26: in main.ts and part_000 every coin carries, in every reachable state, the
\* triple (i, j, serial) that spawnCache gave it; no step (collect, deposit, reset,
\* backup, undo, save, load, move) brings up a triple that no coin, live or saved,
\* had before, other than those of the cells it generates; and a deposit, into the
\* coin's origin cache or another, appends the coin with the triple it had in the
\* inventory.
C26_ProvenanceKept ==
  /\ [](HasTrail => \A coin \in Triples(heap, playerCoins) : AsGenerated(coin))
  /\ [][HasTrail =>
          /\ Triples(heap', playerCoins') \subseteq
               Triples(heap, playerCoins) \cup StoredTriples \cup GeneratedNow
          /\ DepositStep =>
               \A o \in DOMAIN heap \cap DOMAIN heap' :
                  heap'[o].coins # heap[o].coins =>
                    heap'[o].coins = Append(heap[o].coins, Last(playerCoins))]_vars

\* a coin lies in the list of a cache that is not its origin, in main.ts or part_000
C26_CoinAwayFromOrigin ==
  /\ HasTrail
  /\ \E k \in MapKeys(cellStates) : \E coin \in CoinSet(LiveList(k)) : CoinKey(coin) # k

----------------------------------------------------------------------------
(* C27 *)

\* a step whose handler runs updateVisibleCaches on the mapping it finds
RunsUpdate ==
  \/ moveend
  \/ \E fix \in GeoFixes, more \in BOOLEAN : geoSuccess(fix, more)
  \/ resetGame
  \/ undo /\ Len(mementos) > 0

\* the cells (i, j) with |i - pi| <= 8 and |j - pj| <= 8 that pass the spawn test
SpawningAround(pi, pj) ==
  {c \in ((pi - NEIGHBORHOOD_SIZE)..(pi + NEIGHBORHOOD_SIZE))
           \X ((pj - NEIGHBORHOOD_SIZE)..(pj + NEIGHBORHOOD_SIZE)) : Spawns(c)}

\* C27: after a step that runs updateVisibleCaches with the player in cell (pi, pj),
\* cellStates has an entry for every cell of the square around (pi, pj) that passes
\* the spawn test; the entries that the step adds are such cells; no entry is removed
\* or replaced by another state object; and every entry under the key of (i, j) has
\* the fields i and j.
C27_UpdateGeneratesSpawningCells ==
  [][RunsUpdate =>
       \A cells \in {SpawningAround(latToI(currentLat'), lngToJ(currentLng'))} :
         /\ cells \subseteq MapKeys(cellStates')
         /\ MapKeys(cellStates') \ MapKeys(cellStates) \subseteq cells
         /\ \A k \in MapKeys(cellStates) : MapGet(cellStates', k) = MapGet(cellStates, k)
         /\ \A k \in MapKeys(cellStates') :
              /\ heap'[MapGet(cellStates', k)].i = k[1]
              /\ heap'[MapGet(cellStates', k)].j = k[2]]_vars

\* a step has run updateVisibleCaches and a cell has been added that was not there
\* at the start
C27_UpdateAddedCell ==
  /\ rev = "main"
  /\ Len(cellStates) > Len(BootWorld.cs)
  /\ alerted = ""

----------------------------------------------------------------------------
(* C28 *)

\* C28: in main.ts and part_000, every collect click that takes a coin pops it from
\* the coin list that cellStates stores for the cell, every deposit click that gives
\* one pushes it onto that list, and no handler that a click can reach holds a list
\* or a state object that has been replaced.
C28_HandlersActOnLiveState ==
  /\ [](HasTrail => HandlersShareState)
  /\ [][HasTrail =>
          \A key \in DOMAIN markers :
            /\ (CollectOn(key) /\ playerCoins' # playerCoins) =>
                 /\ Len(LiveList(key)) > 0
                 /\ LiveListAfter(key) = Front(LiveList(key))
                 /\ playerCoins' = Append(playerCoins, Last(LiveList(key)))
            /\ (DepositOn(key) /\ playerCoins' # playerCoins) =>
                 LiveListAfter(key) = Append(LiveList(key), Last(playerCoins))]_vars

----------------------------------------------------------------------------
(* C29 *)

\* the cell mapping that the text decodes to, by key
TextCells(text) ==
  [k \in {text.cellStates[n][1] : n \in 1..Len(text.cellStates)} |->
     text.cellStates[CHOOSE n \in 1..Len(text.cellStates) : text.cellStates[n][1] = k][2]]

\* after the step the geocoinGameState slot holds a text that decodes to the live
\* position, trail, inventory and cell mapping
PersistedAfter ==
  /\ storage'.shape = "state"
  /\ storage'.text.playerLocation = [lat |-> currentLat', lng |-> currentLng']
  /\ storage'.text.movementHistory = movementHistory'
  /\ storage'.text.playerCoins = playerCoins'
  /\ TextCells(storage'.text) = CellsOf(cellStates', heap')

\* a button move, a collect or a deposit that succeeds
SavingStep ==
  \/ \E d \in Directions : movePlayer(d[1], d[2])
  \/ (CollectStep \/ DepositStep) /\ playerCoins' # playerCoins

\* a geolocation update, resetGame, or a moveend that generates cells
OtherChangingStep ==
  \/ \E fix \in GeoFixes, more \in BOOLEAN : geoSuccess(fix, more)
  \/ resetGame
  \/ moveend /\ GeneratesCell

\* C29: in part_000, after every completed state-changing operation (button move,
\* geolocation update, successful collect, successful deposit, resetGame, generation
\* of new cells on moveend) the text in the geocoinGameState slot decodes to the live
\* position, trail, inventory and cell mapping.
C29_PersistedTracksLive ==
  [][(rev = "p000" /\ (SavingStep \/ OtherChangingStep)) => PersistedAfter]_vars

\* the same for the operations that call saveGameState
SavingStepsPersist ==
  [][(rev = "p000" /\ SavingStep) => PersistedAfter]_vars

----------------------------------------------------------------------------
(* C30 *)

Position == [lat |-> currentLat, lng |-> currentLng]

----------------------------------------------------------------------------
(* C31 *)

\* the coin at 0-based position k of the list of the cell (i, j) is (i, j, k)
Stamped(key, state) ==
  /\ key = CellKey(state.i, state.j)
  /\ \A n \in 1..Len(state.coins) :
       state.coins[n] = [i |-> state.i, j |-> state.j, serial |-> n - 1]

\* C31: in part_001, in every reachable state, the coin at 0-based position k of the
\* list of every cell (i, j) of cellStates has origin (i, j) and serial k, so the
\* serials of one list are pairwise distinct; and a deposit appends to the list of its
\* cache the coin with the origin of that cache and the serial equal to the length of
\* the list before.
C31_RestampInvariant ==
  /\ [](rev = "p001" =>
         \A n \in 1..Len(cellStates) :
            /\ Stamped(cellStates[n].key, heap[cellStates[n].obj])
            /\ SerialsDistinct(heap[cellStates[n].obj].coins))
  /\ [][(rev = "p001" /\ depositClick /\ Len(playerCoins) > 0) =>
          LiveListAfter(popup.key) =
            Append(LiveList(popup.key),
                   [i |-> popup.key[1], j |-> popup.key[2],
                    serial |-> Len(LiveList(popup.key))])]_vars

\* a cache of part_001 holds more coins than were generated for it: a coin of another
\* cache has been deposited into it
C31_DepositedFromElsewhere ==
  /\ rev = "p001"
  /\ \E n \in 1..Len(cellStates) :
       Len(heap[cellStates[n].obj].coins) >
         Len(InitialCoins(cellStates[n].key[1], cellStates[n].key[2]))

====
